---- MODULE Spec2Model ----
(***************************************************************************)
(* A model of xrandrlib: the line cursor (utils.LineBuffer), the three     *)
(* line recognisers and the Screen/Output/Mode parser (xrandr.Xrandr), and *)
(* the context with its generation counter and pending-update map.         *)
(*                                                                         *)
(* Text is modelled character by character: a Python string is a sequence  *)
(* of one-character strings, so that the recognisers are computed the way  *)
(* the regular expressions compute them.  An optional value (None or a     *)
(* value) is a sequence of length 0 or 1.                                  *)
(***************************************************************************)
EXTENDS Integers, Sequences, FiniteSets, TLC

VARIABLES
    \* ---- the line cursor on its own (SpecLB)
    lbSource,        \* the finite line sequence the cursor was built over
    lb,              \* the LineBuffer object: [buffer, iterator]
    lbReturned,      \* history: the lines returned by successful next() calls
    lbLast,          \* history: the last cursor call and what it returned
    \* ---- the parser on its own (SpecParse)
    pInput,          \* the report handed to the parser, with how it was built
    pLines,          \* the LineBuffer the parser reads
    pResult,         \* what the last parser call returned or raised
    pc,              \* position of the parsing scenario
    \* ---- the context (Spec)
    generation_id,   \* Xrandr._generation_id
    pending_updates, \* Xrandr._pending_updates
    screen,          \* Xrandr.screen (None or the Screen graph)
    update_policy,   \* Xrandr._update_policy
    issued,          \* history: every Screen graph returned to the caller
    refreshes,       \* history: the number of refreshes begun so far
    requests,        \* history: the mutation requests since the last commit or refresh
    calls,           \* history: the external tool invocations of the last operation
    lastOp           \* history: the last operation, its target and its outcome

lbVars == <<lbSource, lb, lbReturned, lbLast>>
parseVars == <<pInput, pLines, pResult, pc>>
ctxVars == <<generation_id, pending_updates, screen, update_policy,
             issued, refreshes, requests, calls, lastOp>>
vars == <<lbSource, lb, lbReturned, lbLast, pInput, pLines, pResult, pc,
          generation_id, pending_updates, screen, update_policy,
          issued, refreshes, requests, calls, lastOp>>

----------------------------------------------------------------------------
(* Bounds of the model. *)

\* The longest line sequence the stand-alone cursor is built over.
MaxLen == 3

----------------------------------------------------------------------------
(* Optional values and text helpers. *)

None == <<>>
Some(x) == <<x>>

Digits == {"0","1","2","3","4","5","6","7","8","9"}
HexChars == Digits \cup {"a","b","c","d","e","f"}
\* The characters Python's \s, str.strip and str.split treat as whitespace.
Whitespace == {" ", "\t", "\n", "\r", "\f"}

HexDigitSeq == <<"0","1","2","3","4","5","6","7","8","9","a","b","c","d","e","f">>
DigitVal(c) == (CHOOSE i \in 1..16 : HexDigitSeq[i] = c) - 1

\* int(s, base) for a string of digits of that base.
RECURSIVE IntOf(_, _)
IntOf(s, base) ==
    IF s = <<>> THEN 0
    ELSE IntOf(SubSeq(s, 1, Len(s) - 1), base) * base + DigitVal(s[Len(s)])

\* "{}".format(n) and hex(n)[2:] for n >= 0.
RECURSIVE DigitsOf(_, _)
DigitsOf(n, base) ==
    IF n < base THEN <<HexDigitSeq[n + 1]>>
    ELSE DigitsOf(n \div base, base) \o <<HexDigitSeq[(n % base) + 1]>>

DecStr(n) == DigitsOf(n, 10)
HexStr(n) == <<"0", "x">> \o DigitsOf(n, 16)

\* s.startswith(prefix)
StartsWith(s, prefix) ==
    Len(s) >= Len(prefix) /\ SubSeq(s, 1, Len(prefix)) = prefix

SetMin(S) == CHOOSE x \in S : \A y \in S : x <= y
SetMax(S) == CHOOSE x \in S : \A y \in S : x >= y

\* The elements of a finite set of integers in ascending order.
Ascending(S) ==
    [k \in 1..Cardinality(S) |-> CHOOSE x \in S : Cardinality({y \in S : y < x}) = k - 1]

\* The positions of s that hold no whitespace.
NonBlank(s) == {j \in 1..Len(s) : s[j] \notin Whitespace}

\* s.rstrip()
RStrip(s) ==
    IF NonBlank(s) = {} THEN <<>> ELSE SubSeq(s, 1, SetMax(NonBlank(s)))

\* s.lstrip()
LStrip(s) ==
    IF NonBlank(s) = {} THEN <<>> ELSE SubSeq(s, SetMin(NonBlank(s)), Len(s))

\* s.strip()
Strip(s) == LStrip(RStrip(s))

\* s.split(): the maximal runs of non-whitespace characters, in order.
Split(s) ==
    LET starts == Ascending({j \in NonBlank(s) : j = 1 \/ (j - 1) \notin NonBlank(s)})
        ends == Ascending({j \in NonBlank(s) : j = Len(s) \/ (j + 1) \notin NonBlank(s)})
    IN  [k \in 1..Len(starts) |-> SubSeq(s, starts[k], ends[k])]

\* s.split('\n'): the pieces between line feeds; always at least one piece.
SplitLines(s) ==
    LET lf == Ascending({j \in 1..Len(s) : s[j] = "\n"})
    IN  [k \in 1..(Len(lf) + 1) |->
            SubSeq(s, IF k = 1 THEN 1 ELSE lf[k - 1] + 1,
                      IF k = Len(lf) + 1 THEN Len(s) ELSE lf[k] - 1)]

\* The lines of a report joined with line feeds (how the inputs are built).
RECURSIVE JoinLf(_)
JoinLf(ls) ==
    IF ls = <<>> THEN <<>>
    ELSE IF Len(ls) = 1 THEN ls[1]
         ELSE ls[1] \o <<"\n">> \o JoinLf(Tail(ls))

MapRStrip(ls) == [i \in 1..Len(ls) |-> RStrip(ls[i])]

\* All sequences over S of length at most n.
SeqsUpTo(S, n) == UNION {[1..k -> S] : k \in 0..n}

----------------------------------------------------------------------------
(* utils.LineBuffer.  The iterator is the sequence of lines not yet pulled *)
(* from the underlying sequence; the buffer is None or the one line held.  *)

\* A mutant of EnsureBuffer: "if not self.buffer" instead of
\* "if self.buffer is None", which takes a held empty line for no line.
EnsureBufferFalsy(b) ==
    IF b.buffer = None \/ b.buffer[1] = <<>>
    THEN IF b.iterator # <<>>
         THEN [ret |-> TRUE,
               lb |-> [buffer |-> Some(Head(b.iterator)),
                       iterator |-> Tail(b.iterator)]]
         ELSE [ret |-> FALSE, lb |-> b]
    ELSE [ret |-> TRUE, lb |-> b]

\* LineBuffer._ensure_buffer: the flag returned and the cursor afterwards.
EnsureBuffer(b) ==
    IF b.buffer = None
    THEN IF b.iterator # <<>>
         THEN [ret |-> TRUE,
               lb |-> [buffer |-> Some(Head(b.iterator)),
                       iterator |-> Tail(b.iterator)]]
         ELSE [ret |-> FALSE, lb |-> b]
    ELSE [ret |-> TRUE, lb |-> b]

\* LineBuffer.__init__
NewLineBuffer(lines) ==
    EnsureBuffer([buffer |-> None, iterator |-> lines]).lb

\* LineBuffer.peek: exc is "" or the exception raised.
Peek(b) ==
    LET e == EnsureBuffer(b)
    IN  IF ~e.ret
        THEN [exc |-> "StopIteration", val |-> <<>>, lb |-> e.lb]
        ELSE [exc |-> "", val |-> e.lb.buffer[1], lb |-> e.lb]

\* LineBuffer.next
NextLine(b) ==
    LET e == EnsureBuffer(b)
    IN  IF ~e.ret
        THEN [exc |-> "StopIteration", val |-> <<>>, lb |-> e.lb]
        ELSE [exc |-> "", val |-> e.lb.buffer[1],
              lb |-> [buffer |-> None, iterator |-> e.lb.iterator]]

\* LineBuffer.has_next
HasNext(b) ==
    LET e == EnsureBuffer(b)
    IN  [ret |-> e.ret, lb |-> e.lb]

----------------------------------------------------------------------------
(* The pattern matchers.  A regular expression is written as the tree the  *)
(* re module compiles it to, and Matches computes what re.match computes:  *)
(* the ways the expression matches from a position, in the order in which  *)
(* the backtracking matcher tries them (greedy first).  re.match takes the *)
(* first of them; it is anchored at the start of the line and free at its  *)
(* end.                                                                    *)

\* Strict binding: F applied to the value of v, which is computed once.
Let(v, F(_)) == CHOOSE r \in {F(y) : y \in {v}} : TRUE

\* The position after the longest run, from i, of characters that are
\* (inSet) or are not (~inSet) in class.
RunEnd(s, i, class, inSet) ==
    LET stops == {j \in i..Len(s) : (s[j] \in class) # inSet}
    IN  IF stops = {} THEN Len(s) + 1 ELSE SetMin(stops)

RECURSIVE Flatten(_)
Flatten(ss) == IF ss = <<>> THEN <<>> ELSE Head(ss) \o Flatten(Tail(ss))

Lit(v) == [t |-> "lit", v |-> v]                  \* the literal text v
In(class) == [t |-> "set", class |-> class, neg |-> FALSE]    \* [class]
NotIn(class) == [t |-> "set", class |-> class, neg |-> TRUE]  \* [^class]
Cat(items) == [t |-> "seq", items |-> items]      \* items one after another
Alt(items) == [t |-> "alt", items |-> items]      \* a|b|c
Opt(item) == [t |-> "opt", item |-> item]         \* item?
Plus(item) == [t |-> "plus", item |-> item]       \* item+
Named(name, item) == [t |-> "group", name |-> name, item |-> item]  \* (?P<name>item)

\* The matches of node n in s from the matcher state st = [pos, caps], most
\* preferred first.
RECURSIVE Matches(_, _, _)
RECURSIVE MatchesCat(_, _, _, _)
Matches(n, s, st) ==
    CASE n.t = "lit" ->
            IF st.pos + Len(n.v) - 1 <= Len(s)
               /\ SubSeq(s, st.pos, st.pos + Len(n.v) - 1) = n.v
            THEN <<[st EXCEPT !.pos = @ + Len(n.v)]>>
            ELSE <<>>
      [] n.t = "set" ->
            IF st.pos <= Len(s) /\ ((s[st.pos] \in n.class) # n.neg)
            THEN <<[st EXCEPT !.pos = @ + 1]>>
            ELSE <<>>
      [] n.t = "seq" -> MatchesCat(n.items, 1, s, <<st>>)
      [] n.t = "alt" ->
            Flatten([k \in 1..Len(n.items) |-> Matches(n.items[k], s, st)])
      [] n.t = "opt" -> Matches(n.item, s, st) \o <<st>>
      [] n.t = "plus" /\ n.item.t = "set" ->
            \* a run of one character class: every length from the longest down
            Let(RunEnd(s, st.pos, n.item.class, ~n.item.neg), LAMBDA e :
                [j \in 1..(e - st.pos) |-> [st EXCEPT !.pos = e - j + 1]])
      [] n.t = "plus" /\ n.item.t # "set" ->
            Let(Matches(n.item, s, st), LAMBDA once :
                Flatten([j \in 1..Len(once) |->
                            (IF once[j].pos > st.pos
                             THEN Matches(n, s, once[j]) ELSE <<>>)
                            \o <<once[j]>>]))
      [] n.t = "group" ->
            Let(Matches(n.item, s, st), LAMBDA r :
                [j \in 1..Len(r) |->
                    [pos |-> r[j].pos,
                     caps |-> [r[j].caps EXCEPT
                                  ![n.name] = Some(SubSeq(s, st.pos, r[j].pos - 1))]]])

\* items[k], items[k+1], ... matched one after another from each of sts.
MatchesCat(items, k, s, sts) ==
    IF k > Len(items) THEN sts
    ELSE Let(Flatten([j \in 1..Len(sts) |-> Matches(items[k], s, sts[j])]),
             LAMBDA nxt : MatchesCat(items, k + 1, s, nxt))

\* regex.match(s): ok, and m.group(name) for every name (None for a group
\* that took no part in the match).
ReMatch(regex, names, s) ==
    Let(Matches(regex, s, [pos |-> 1, caps |-> [g \in names |-> None]]),
        LAMBDA r : IF r = <<>> THEN [ok |-> FALSE, group |-> <<>>]
                   ELSE [ok |-> TRUE, group |-> r[1].caps])

Number == Plus(In(Digits))
HexNumber == Plus(In(HexChars))

\* _REGEX_SCREEN_HEADER
RegexScreenHeader ==
    Cat(<<Lit(<<"S","c","r","e","e","n"," ">>), Named("num", Number), Lit(<<":"," ">>),
          Lit(<<"m","i","n","i","m","u","m"," ">>), Named("minW", Number),
          Lit(<<" ","x"," ">>), Named("minH", Number), Lit(<<","," ">>),
          Lit(<<"c","u","r","r","e","n","t"," ">>), Named("curW", Number),
          Lit(<<" ","x"," ">>), Named("curH", Number), Lit(<<","," ">>),
          Lit(<<"m","a","x","i","m","u","m"," ">>), Named("maxW", Number),
          Lit(<<" ","x"," ">>), Named("maxH", Number)>>)

\* _REGEX_OUTPUT_HEADER
RegexOutputHeader ==
    Cat(<<Named("name", Plus(NotIn(Whitespace))), Lit(<<" ">>),
          Named("status",
                Alt(<<Lit(<<"d","i","s","c","o","n","n","e","c","t","e","d">>),
                      Lit(<<"c","o","n","n","e","c","t","e","d">>),
                      Lit(<<"u","n","k","n","o","w","n"," ","c","o","n","n","e","c","t","i","o","n">>)>>)),
          Lit(<<" ">>),
          Opt(Cat(<<Named("width", Number),
                    Lit(<<"x">>), Named("height", Number),
                    Opt(Cat(<<Lit(<<"+">>), Named("xpos", Number),
                              Lit(<<"+">>), Named("ypos", Number)>>)),
                    Lit(<<" ">>)>>)),
          Opt(Cat(<<Lit(<<"(","0","x">>), Named("mode_id", HexNumber), Lit(<<")">>),
                    Lit(<<" ">>)>>))>>)

\* _REGEX_MODE_HEADER
RegexModeHeader ==
    Cat(<<Lit(<<" "," ">>), Named("width", Number), Lit(<<"x">>), Named("height", Number),
          Lit(<<" ">>),
          Lit(<<"(","0","x">>), Named("mode_id", HexNumber), Lit(<<")"," ">>),
          Number, Lit(<<".">>), Number, Opt(In({"G", "M", "K"})), Lit(<<"H","z">>),
          Opt(Lit(<<" ">>)),
          Named("flags",
                Plus(Cat(<<Alt(<<Cat(<<In({"+", "-"}), In({"H", "V"}),
                                       Lit(<<"S","y","n","c">>)>>),
                                 Lit(<<"I","n","t","e","r","l","a","c","e">>)>>),
                           Opt(Lit(<<" ">>))>>))),
          Opt(Named("current", Lit(<<"*","c","u","r","r","e","n","t">>))),
          Opt(Lit(<<" ">>)),
          Opt(Named("preferred", Lit(<<"+","p","r","e","f","e","r","r","e","d">>)))>>)

ScreenHeaderMatch(s) ==
    ReMatch(RegexScreenHeader,
            {"num", "minW", "minH", "curW", "curH", "maxW", "maxH"}, s)

OutputHeaderMatch(s) ==
    ReMatch(RegexOutputHeader,
            {"name", "status", "width", "height", "xpos", "ypos", "mode_id"}, s)

ModeHeaderMatch(s) ==
    ReMatch(RegexModeHeader,
            {"width", "height", "mode_id", "flags", "current", "preferred"}, s)

----------------------------------------------------------------------------
(* The model objects.  Every constructor goes through                      *)
(* XrandrModelObject.__init__, which stamps the object with the master's   *)
(* generation counter as it is at that moment.                             *)

\* XrandrModelObject.__init__
ModelObject(master_gen, identifier) ==
    [generation_id |-> master_gen, identifier |-> identifier]

\* Mode.__init__ ; the identifier is "Mode({},{})".format(output_name, hex(id))
NewMode(master_gen, output_name, size, id, preferred, flags) ==
    ModelObject(master_gen,
                <<"M","o","d","e","(">> \o output_name \o <<",">> \o HexStr(id) \o <<")">>)
    @@ [kind |-> "Mode", size |-> size, id |-> id,
        preferred |-> preferred, flags |-> flags]

\* Output.__init__ ; the identifier is "Output({})".format(name)
NewOutput(master_gen, name, connected, size, position, current_mode_id, modes) ==
    ModelObject(master_gen, <<"O","u","t","p","u","t","(">> \o name \o <<")">>)
    @@ [kind |-> "Output", name |-> name, connected |-> connected,
        size |-> size, position |-> position,
        current_mode_id |-> current_mode_id, modes |-> modes]

\* Screen.__init__ ; the identifier is "Screen({})".format(number)
NewScreen(master_gen, number, size_min, size_current, size_max, outputs) ==
    ModelObject(master_gen, <<"S","c","r","e","e","n","(">> \o DecStr(number) \o <<")">>)
    @@ [kind |-> "Screen", number |-> number, size_min |-> size_min,
        size_current |-> size_current, size_max |-> size_max,
        outputs |-> outputs]

----------------------------------------------------------------------------
(* The parser.  Every parsing operator returns                             *)
(*   [exc, msg, val, lb]                                                   *)
(* exc is "" on a normal return and otherwise the exception raised, msg    *)
(* is the exception's message, val the value returned and lb the cursor    *)
(* afterwards.                                                             *)

Return(v, b) == [exc |-> "", msg |-> <<>>, val |-> v, lb |-> b]
Raise(e, m, b) == [exc |-> e, msg |-> m, val |-> <<>>, lb |-> b]

\* A mutant of ParseMode: one line is discarded after the header, not two.
ParseModeDiscardsOne(master_gen, output_name, b) ==
    Let(NextLine(b), LAMBDA n1 :
    IF n1.exc # "" THEN Raise(n1.exc, <<>>, n1.lb)
    ELSE
    Let(ModeHeaderMatch(n1.val), LAMBDA m :
    IF ~m.ok
    THEN Raise("XrandrCommandError",
               <<"C","o","u","l","d"," ","n","o","t"," ","p","a","r","s","e"," ","M","o","d","e"," ","h","e","a","d","e","r"," ","l","i","n","e",":"," ">>
               \o n1.val, n1.lb)
    ELSE
    Let(NextLine(n1.lb), LAMBDA n2 :
    IF n2.exc # "" THEN Raise(n2.exc, <<>>, n2.lb)
    ELSE Return(NewMode(master_gen, output_name,
                        <<IntOf(m.group.width[1], 10), IntOf(m.group.height[1], 10)>>,
                        IntOf(m.group.mode_id[1], 16),
                        m.group.preferred # None,
                        Split(Strip(IF m.group.flags = None THEN <<>>
                                    ELSE m.group.flags[1]))),
                n2.lb))))

\* Xrandr._parse_mode
ParseMode(master_gen, output_name, b) ==
    Let(NextLine(b), LAMBDA n1 :
    IF n1.exc # "" THEN Raise(n1.exc, <<>>, n1.lb)
    ELSE
    Let(ModeHeaderMatch(n1.val), LAMBDA m :
    IF ~m.ok
    THEN Raise("XrandrCommandError",
               <<"C","o","u","l","d"," ","n","o","t"," ","p","a","r","s","e"," ","M","o","d","e"," ","h","e","a","d","e","r"," ","l","i","n","e",":"," ">>
               \o n1.val, n1.lb)
    ELSE
    Let(NextLine(n1.lb), LAMBDA n2 :
    IF n2.exc # "" THEN Raise(n2.exc, <<>>, n2.lb)
    ELSE
    Let(NextLine(n2.lb), LAMBDA n3 :
    IF n3.exc # "" THEN Raise(n3.exc, <<>>, n3.lb)
    ELSE Return(NewMode(master_gen, output_name,
                        <<IntOf(m.group.width[1], 10), IntOf(m.group.height[1], 10)>>,
                        IntOf(m.group.mode_id[1], 16),
                        m.group.preferred # None,
                        Split(Strip(IF m.group.flags = None THEN <<>>
                                    ELSE m.group.flags[1]))),
                n3.lb)))))

\* A mutant of ParseOutputLines: the line that ends the section is consumed.
RECURSIVE ParseOutputLinesConsumesEnd(_, _, _, _)
ParseOutputLinesConsumesEnd(master_gen, name, b, modes) ==
    Let(HasNext(b), LAMBDA h :
    IF ~h.ret THEN Return(modes, h.lb)
    ELSE
    Let(Peek(h.lb), LAMBDA p :
    IF StartsWith(p.val, <<"\t">>)
    THEN ParseOutputLinesConsumesEnd(master_gen, name, NextLine(p.lb).lb, modes)
    ELSE IF ModeHeaderMatch(p.val).ok
    THEN Let(ParseMode(master_gen, name, p.lb), LAMBDA r :
             IF r.exc # "" THEN r
             ELSE ParseOutputLinesConsumesEnd(master_gen, name, r.lb, Append(modes, r.val)))
    ELSE IF ~StartsWith(p.val, <<" ">>) THEN Return(modes, NextLine(p.lb).lb)
    ELSE Raise("XrandrCommandError",
               <<"C","o","u","l","d"," ","n","o","t"," ","p","a","r","s","e"," ","x","r","a","n","d","r"," ","O","u","t","p","u","t"," ","s","u","p","p","l","e","m","e","n","t","a","r","y"," ","l","i","n","e",":"," ">>
               \o p.val, p.lb)))

\* The loop of Xrandr._parse_output over the lines after the header.
RECURSIVE ParseOutputLines(_, _, _, _)
ParseOutputLines(master_gen, name, b, modes) ==
    Let(HasNext(b), LAMBDA h :
    IF ~h.ret THEN Return(modes, h.lb)
    ELSE
    Let(Peek(h.lb), LAMBDA p :
    IF StartsWith(p.val, <<"\t">>)
    THEN ParseOutputLines(master_gen, name, NextLine(p.lb).lb, modes)
    ELSE IF ModeHeaderMatch(p.val).ok
    THEN Let(ParseMode(master_gen, name, p.lb), LAMBDA r :
             IF r.exc # "" THEN r
             ELSE ParseOutputLines(master_gen, name, r.lb, Append(modes, r.val)))
    ELSE IF ~StartsWith(p.val, <<" ">>) THEN Return(modes, p.lb)
    ELSE Raise("XrandrCommandError",
               <<"C","o","u","l","d"," ","n","o","t"," ","p","a","r","s","e"," ","x","r","a","n","d","r"," ","O","u","t","p","u","t"," ","s","u","p","p","l","e","m","e","n","t","a","r","y"," ","l","i","n","e",":"," ">>
               \o p.val, p.lb)))

\* The fields Xrandr._parse_output decodes from the groups of the header.
OutputConnected(g) ==
    IF g.status[1] = <<"c","o","n","n","e","c","t","e","d">> THEN Some(TRUE)
    ELSE IF g.status[1] = <<"d","i","s","c","o","n","n","e","c","t","e","d">> THEN Some(FALSE)
    ELSE None

OutputSize(g) ==
    IF g.width # None
    THEN Some(<<IntOf(g.width[1], 10), IntOf(g.height[1], 10)>>)
    ELSE None

OutputPosition(g) ==
    IF g.xpos # None
    THEN Some(<<IntOf(g.xpos[1], 10), IntOf(g.ypos[1], 10)>>)
    ELSE IF OutputSize(g) = None THEN None ELSE Some(<<0, 0>>)

OutputCurrentModeId(g) ==
    IF g.mode_id # None THEN Some(IntOf(g.mode_id[1], 16)) ELSE None

\* Xrandr._parse_output
ParseOutput(master_gen, b) ==
    Let(NextLine(b), LAMBDA n :
    IF n.exc # "" THEN Raise(n.exc, <<>>, n.lb)
    ELSE
    Let(OutputHeaderMatch(n.val), LAMBDA m :
    IF ~m.ok
    THEN Raise("XrandrCommandError",
               <<"C","o","u","l","d"," ","n","o","t"," ","p","a","r","s","e"," ","O","u","t","p","u","t"," ","h","e","a","d","e","r"," ","l","i","n","e",":"," ">>
               \o n.val, n.lb)
    ELSE
    Let(ParseOutputLines(master_gen, m.group.name[1], n.lb, <<>>), LAMBDA r :
    IF r.exc # "" THEN r
    ELSE Return(NewOutput(master_gen, m.group.name[1], OutputConnected(m.group),
                          OutputSize(m.group), OutputPosition(m.group),
                          OutputCurrentModeId(m.group), r.val),
                r.lb))))

\* The first loop of Xrandr._parse_screen: outputs while the next line is an
\* output header.
RECURSIVE ParseScreenOutputs(_, _, _)
ParseScreenOutputs(master_gen, b, outputs) ==
    Let(Peek(b), LAMBDA p :
    IF p.exc # "" THEN Raise(p.exc, <<>>, p.lb)
    ELSE IF ~OutputHeaderMatch(p.val).ok THEN Return(outputs, p.lb)
    ELSE Let(ParseOutput(master_gen, p.lb), LAMBDA r :
             IF r.exc # "" THEN r
             ELSE ParseScreenOutputs(master_gen, r.lb, Append(outputs, r.val))))

\* The second loop of Xrandr._parse_screen: skip the blank lines.
RECURSIVE SkipBlankLines(_)
SkipBlankLines(b) ==
    Let(HasNext(b), LAMBDA h :
    IF h.ret /\ Strip(Peek(h.lb).val) = <<>>
    THEN SkipBlankLines(NextLine(h.lb).lb)
    ELSE h.lb)

\* The Screen Xrandr._parse_screen builds from the groups of the screen line.
ScreenOf(master_gen, g, outputs) ==
    NewScreen(master_gen, IntOf(g.num[1], 10),
              <<IntOf(g.minW[1], 10), IntOf(g.minH[1], 10)>>,
              <<IntOf(g.curW[1], 10), IntOf(g.curH[1], 10)>>,
              <<IntOf(g.maxW[1], 10), IntOf(g.maxH[1], 10)>>,
              outputs)

\* A mutant of ParseScreen: a first line that is not a screen line is
\* taken for a screen whose numbers are all 0.
ParseScreenUnchecked(master_gen, b) ==
    Let(NextLine(b), LAMBDA n :
    IF n.exc # "" THEN Raise(n.exc, <<>>, n.lb)
    ELSE
    Let(ScreenHeaderMatch(n.val), LAMBDA m :
    Let(ParseScreenOutputs(master_gen, n.lb, <<>>), LAMBDA r :
    IF r.exc # "" THEN r
    ELSE IF ~m.ok
    THEN Return(NewScreen(master_gen, 0, <<0, 0>>, <<0, 0>>, <<0, 0>>, r.val), r.lb)
    ELSE Return(ScreenOf(master_gen, m.group, r.val), r.lb))))

\* A mutant of ParseScreen: the blank lines after the outputs are not
\* skipped.
ParseScreenKeepsBlank(master_gen, b) ==
    Let(NextLine(b), LAMBDA n :
    IF n.exc # "" THEN Raise(n.exc, <<>>, n.lb)
    ELSE
    Let(ScreenHeaderMatch(n.val), LAMBDA m :
    IF ~m.ok
    THEN Raise("XrandrCommandError",
               <<"C","o","u","l","d"," ","n","o","t"," ","p","a","r","s","e"," ","S","c","r","e","e","n"," ","l","i","n","e",":"," ">>
               \o n.val, n.lb)
    ELSE
    Let(ParseScreenOutputs(master_gen, n.lb, <<>>), LAMBDA r :
    IF r.exc # "" THEN r
    ELSE
    Let(HasNext(r.lb), LAMBDA h :
    IF h.ret
    THEN Raise("XrandrCommandError",
               <<"C","o","u","l","d"," ","n","o","t"," ","p","a","r","s","e"," ","x","r","a","n","d","r"," ","o","u","t","p","u","t"," ","l","i","n","e",":"," ">>
               \o Peek(h.lb).val, h.lb)
    ELSE Return(ScreenOf(master_gen, m.group, r.val), h.lb)))))

\* Xrandr._parse_screen
ParseScreen(master_gen, b) ==
    Let(NextLine(b), LAMBDA n :
    IF n.exc # "" THEN Raise(n.exc, <<>>, n.lb)
    ELSE
    Let(ScreenHeaderMatch(n.val), LAMBDA m :
    IF ~m.ok
    THEN Raise("XrandrCommandError",
               <<"C","o","u","l","d"," ","n","o","t"," ","p","a","r","s","e"," ","S","c","r","e","e","n"," ","l","i","n","e",":"," ">>
               \o n.val, n.lb)
    ELSE
    Let(ParseScreenOutputs(master_gen, n.lb, <<>>), LAMBDA r :
    IF r.exc # "" THEN r
    ELSE
    Let(HasNext(SkipBlankLines(r.lb)), LAMBDA h :
    IF h.ret
    THEN Raise("XrandrCommandError",
               <<"C","o","u","l","d"," ","n","o","t"," ","p","a","r","s","e"," ","x","r","a","n","d","r"," ","o","u","t","p","u","t"," ","l","i","n","e",":"," ">>
               \o Peek(h.lb).val, h.lb)
    ELSE Return(ScreenOf(master_gen, m.group, r.val), h.lb)))))

\* " ".join(words)
RECURSIVE JoinSp(_)
JoinSp(words) ==
    IF words = <<>> THEN <<>>
    ELSE IF Len(words) = 1 THEN words[1]
         ELSE words[1] \o <<" ">> \o JoinSp(Tail(words))

\* The xrandr_binary the context was constructed with.
XrandrBinary == <<"x","r","a","n","d","r">>

\* Xrandr._run_xrandr: the tool's exit code and its combined output decide;
\* the lines are split on line feeds and right-stripped one by one.
RunXrandr(args, exitcode, stdout) ==
    IF exitcode # 0
    THEN Raise("XrandrCommandError",
               <<"E","r","r","o","r"," ","r","u","n","n","i","n","g"," ","x","r","a","n","d","r"," ","c","o","m","m","a","n","d"," ","\"">>
               \o JoinSp(<<XrandrBinary>> \o args) \o <<"\"",":"," ">> \o stdout,
               None)
    ELSE Return(NewLineBuffer(MapRStrip(SplitLines(stdout))), None)

\* Mode.__str__
ModeStr(m) ==
    DecStr(m.size[1]) \o <<"x">> \o DecStr(m.size[2]) \o <<" ", "(">> \o HexStr(m.id)
    \o <<")", " ">> \o JoinSp(m.flags)
    \o (IF m.preferred THEN <<" ","p","r","e","f","e","r","r","e","d">> ELSE <<>>)

\* The lines Output.__str__ adds for the modes.
RECURSIVE ModeLines(_)
ModeLines(modes) ==
    IF modes = <<>> THEN <<>>
    ELSE <<"\n", " ", " ">> \o ModeStr(Head(modes)) \o ModeLines(Tail(modes))

\* Output.__str__ : hex(None) is a TypeError.
OutputStr(o) ==
    LET head == <<"O","u","t","p","u","t"," ">> \o o.name \o <<" ","i","s"," ">>
                \o (IF o.connected = Some(TRUE) THEN <<"c","o","n","n","e","c","t","e","d">>
                    ELSE IF o.connected = Some(FALSE) THEN <<"d","i","s","c","o","n","n","e","c","t","e","d">>
                    ELSE <<"s","t","a","t","u","s"," ","u","n","k","n","o","w","n">>)
        sizeTxt == <<" ","(">> \o DecStr(o.size[1][1]) \o <<"x">> \o DecStr(o.size[1][2])
        posTxt == IF o.position # None
                  THEN <<"+">> \o DecStr(o.position[1][1]) \o <<"+">> \o DecStr(o.position[1][2])
                  ELSE <<>>
    IN  IF o.size = None THEN [exc |-> "", val |-> head \o ModeLines(o.modes)]
        ELSE IF o.current_mode_id = None THEN [exc |-> "TypeError", val |-> <<>>]
        ELSE [exc |-> "", val |-> head \o sizeTxt \o posTxt
                          \o <<",", " ", "m","o","d","e"," ","I","D"," ">>
                          \o HexStr(o.current_mode_id[1]) \o <<")">>
                          \o ModeLines(o.modes)]

----------------------------------------------------------------------------
(* The texts the external tool is taken to print. *)

\* "Screen 0: minimum 320 x 200, current 1920 x 1080, maximum 8192 x 8192"
LineScreen0 == <<"S","c","r","e","e","n"," ","0",":"," ","m","i","n","i","m","u","m"," ","3","2","0"," ","x"," ","2","0","0",","," ","c","u","r","r","e","n","t"," ","1","9","2","0"," ","x"," ","1","0","8","0",","," ","m","a","x","i","m","u","m"," ","8","1","9","2"," ","x"," ","8","1","9","2">>
\* "Screen: bogus"
LineScreenBogus == <<"S","c","r","e","e","n",":"," ","b","o","g","u","s">>
\* "eDP-1 connected 1920x1080+0+0 (0x44)"
LineEdpBare == <<"e","D","P","-","1"," ","c","o","n","n","e","c","t","e","d"," ","1","9","2","0","x","1","0","8","0","+","0","+","0"," ","(","0","x","4","4",")">>
\* "HDMI-1 disconnected (normal left inverted right x axis y axis)"
LineHdmi == <<"H","D","M","I","-","1"," ","d","i","s","c","o","n","n","e","c","t","e","d"," ","(","n","o","r","m","a","l"," ","l","e","f","t"," ","i","n","v","e","r","t","e","d"," ","r","i","g","h","t"," ","x"," ","a","x","i","s"," ","y"," ","a","x","i","s",")">>
\* "  1920x1080 (0x44) 60.00Hz -HSync +VSync  *current +preferred"
LineModeTwoSpaces == <<" "," ","1","9","2","0","x","1","0","8","0"," ","(","0","x","4","4",")"," ","6","0",".","0","0","H","z"," ","-","H","S","y","n","c"," ","+","V","S","y","n","c"," "," ","*","c","u","r","r","e","n","t"," ","+","p","r","e","f","e","r","r","e","d">>
\* "        h: width  1920 start 2008 end 2052 total 2200 skew    0 clock  67.50KHz"
LineMetaH == <<" "," "," "," "," "," "," "," ","h",":"," ","w","i","d","t","h"," "," ","1","9","2","0"," ","s","t","a","r","t"," ","2","0","0","8"," ","e","n","d"," ","2","0","5","2"," ","t","o","t","a","l"," ","2","2","0","0"," ","s","k","e","w"," "," "," "," ","0"," ","c","l","o","c","k"," "," ","6","7",".","5","0","K","H","z">>
\* "        v: height 1080 start 1084 end 1089 total 1125           clock  60.00Hz"
LineMetaV == <<" "," "," "," "," "," "," "," ","v",":"," ","h","e","i","g","h","t"," ","1","0","8","0"," ","s","t","a","r","t"," ","1","0","8","4"," ","e","n","d"," ","1","0","8","9"," ","t","o","t","a","l"," ","1","1","2","5"," "," "," "," "," "," "," "," "," "," "," ","c","l","o","c","k"," "," ","6","0",".","0","0","H","z">>

NameEdp == <<"e","D","P","-","1">>
NameHdmi == <<"H","D","M","I","-","1">>
StatusTexts == {<<"c","o","n","n","e","c","t","e","d">>,
                <<"d","i","s","c","o","n","n","e","c","t","e","d">>,
                <<"u","n","k","n","o","w","n"," ","c","o","n","n","e","c","t","i","o","n">>}

\* An output header line written from its fields by the grammar
\*   <name> <status> [<W>x<H>[+<X>+<Y>]] [(0x<mode_id>)]
\* followed by tail, the rest of the line the tool prints (rotation and so
\* on), which is empty for a line of exactly the grammar.
HeaderLine(h) ==
    h.name \o <<" ">> \o h.status
    \o (IF h.size = None THEN <<>>
        ELSE <<" ">> \o DecStr(h.size[1][1]) \o <<"x">> \o DecStr(h.size[1][2])
             \o (IF h.pos = None THEN <<>>
                 ELSE <<"+">> \o DecStr(h.pos[1][1]) \o <<"+">> \o DecStr(h.pos[1][2])))
    \o (IF h.mode_id = None THEN <<>>
        ELSE <<" ", "(">> \o HexStr(h.mode_id[1]) \o <<")">>)
    \o h.tail

HeaderFields ==
    {h \in [name : {NameEdp},
            status : StatusTexts,
            size : {None, Some(<<1920, 1080>>)},
            pos : {None, Some(<<0, 0>>), Some(<<1920, 0>>)},
            mode_id : {None, Some(68)},
            tail : {<<>>, <<" ","n","o","r","m","a","l">>}] :
        h.size = None => h.pos = None}

\* A mode header line written from its fields by the grammar
\*   two spaces <W>x<H> (0x<mode_id>) <refresh>Hz <flags> [*current] [+preferred]
\* with sep the blanks written before the *current marker.
ModeLine(m) ==
    <<" ", " ">> \o DecStr(m.size[1]) \o <<"x">> \o DecStr(m.size[2])
    \o <<" ", "(">> \o HexStr(m.id) \o <<")", " ">> \o m.refresh
    \o (IF m.flags = <<>> THEN <<>> ELSE <<" ">> \o JoinSp(m.flags))
    \o (IF m.current THEN m.sep \o <<"*","c","u","r","r","e","n","t">> ELSE <<>>)
    \o (IF m.preferred THEN <<" ","+","p","r","e","f","e","r","r","e","d">> ELSE <<>>)

FlagLists ==
    {<<>>,
     <<<<"+","H","S","y","n","c">>, <<"-","V","S","y","n","c">>>>,
     <<<<"-","H","S","y","n","c">>, <<"+","V","S","y","n","c">>>>,
     <<<<"I","n","t","e","r","l","a","c","e">>, <<"+","H","S","y","n","c">>, <<"+","H","S","y","n","c">>>>}

ModeFields ==
    [size : {<<1920, 1080>>},
     id : {68},
     refresh : {<<"6","0",".","0","0","H","z">>, <<"1","3","8",".","5","0","M","H","z">>},
     flags : FlagLists,
     sep : {<<" ">>, <<" ", " ">>},
     current : BOOLEAN,
     preferred : BOOLEAN]

\* The report of the end-to-end scenario: screen line, output line, mode
\* line, two metadata lines, one blank line.
ReportScenario ==
    JoinLf(<<LineScreen0, LineEdpBare, LineModeTwoSpaces, LineMetaH, LineMetaV, <<>>>>)

\* The same report as the tool prints it: text after the mode id on the
\* output line, one space before *current, and a second output.
ReportTwoOutputs ==
    JoinLf(<<LineScreen0,
             LineEdpBare \o <<" ","n","o","r","m","a","l">>,
             ModeLine([size |-> <<1920, 1080>>, id |-> 68,
                       refresh |-> <<"6","0",".","0","0","H","z">>,
                       flags |-> <<<<"-","H","S","y","n","c">>, <<"+","V","S","y","n","c">>>>,
                       sep |-> <<" ">>, current |-> TRUE, preferred |-> TRUE]),
             LineMetaH, LineMetaV, LineHdmi, <<>>>>)

ReportBogus == JoinLf(<<LineScreenBogus, <<>>>>)

\* Two modes whose header lines the pattern takes whole.
ModeA ==
    [size |-> <<1920, 1080>>, id |-> 68, refresh |-> <<"6","0",".","0","0","H","z">>,
     flags |-> <<<<"-","H","S","y","n","c">>, <<"+","V","S","y","n","c">>>>, sep |-> <<" ">>, current |-> TRUE, preferred |-> TRUE]
ModeB ==
    [size |-> <<1280, 720>>, id |-> 69, refresh |-> <<"5","9",".","9","4","H","z">>,
     flags |-> <<<<"+","H","S","y","n","c">>>>, sep |-> <<" ">>, current |-> FALSE, preferred |-> FALSE]

\* "eDP-1 connected 1920x1080+0+0 (0x44) normal"
LineEdp == LineEdpBare \o <<" ","n","o","r","m","a","l">>
\* "\tIdentifier: 0x42"
LineTab == <<"\t","I","d","e","n","t","i","f","i","e","r",":"," ","0","x","4","2">>
\* " junk"
LineJunk == <<" ","j","u","n","k">>

\* What may follow the header line in the section of an output: a
\* supplementary line, a mode (three lines), a line indented with a space
\* that is no mode header, an empty line, the header of the next output.
MaxItems == 3
SectionItems == {"tab", "modeA", "modeB", "junk", "blank", "header"}
ItemLines(k) ==
    CASE k = "tab" -> <<LineTab>>
      [] k = "modeA" -> <<ModeLine(ModeA), LineMetaH, LineMetaV>>
      [] k = "modeB" -> <<ModeLine(ModeB), LineMetaH, LineMetaV>>
      [] k = "junk" -> <<LineJunk>>
      [] k = "blank" -> << <<>> >>
      [] k = "header" -> <<LineHdmi>>

RECURSIVE ItemsLines(_)
ItemsLines(items) ==
    IF items = <<>> THEN <<>> ELSE ItemLines(Head(items)) \o ItemsLines(Tail(items))

SectionLines(items) == <<LineEdp>> \o ItemsLines(items)

\* What the two lines after a mode header may be: a metadata line, a mode
\* header, an output header, an empty line, a supplementary line and a
\* line that is none of these.
AfterModeHeader == {LineMetaH, ModeLine(ModeB), LineHdmi, <<>>, LineTab, LineJunk}

\* Mode A with the two lines l after its header, then mode B.
TwoModes(l) == <<ModeLine(ModeA), l[1], l[2], ModeLine(ModeB), LineMetaH, LineMetaV>>

\* The sections of two outputs: eDP-1 with mode A, HDMI-1 with no mode.
OutputSections == {"edp", "hdmi"}
OutputSectionLines(k) ==
    IF k = "edp" THEN <<LineEdp, ModeLine(ModeA), LineMetaH, LineMetaV>>
    ELSE <<LineHdmi>>

RECURSIVE OutputsLines(_)
OutputsLines(ks) ==
    IF ks = <<>> THEN <<>> ELSE OutputSectionLines(Head(ks)) \o OutputsLines(Tail(ks))

\* The lines a report may end with after its outputs: an empty line, a
\* line of blanks, a text and an indented text.
MaxOutputs == 2
MaxTrailer == 2
TrailerLines == {<<>>, <<" ", " ">>, <<"j","u","n","k">>, LineJunk}

\* A report written from its parts.
ReportOfParts(f) == JoinLf(<<LineScreen0>> \o OutputsLines(f.outputs) \o f.tail)

\* A report that ends after the header of a mode and k of its two metadata
\* lines.
ReportTruncated(k) ==
    JoinLf(<<LineScreen0, LineEdp, ModeLine(ModeA)>> \o SubSeq(<<LineMetaH, LineMetaV>>, 1, k))

ReportParts ==
    [outputs : SeqsUpTo(OutputSections, MaxOutputs), tail : SeqsUpTo(TrailerLines, MaxTrailer)]

\* The inputs of the parsing scenarios: whole reports, single output header
\* lines, single mode sections (header and two metadata lines), output
\* sections, and two modes alone, under an output header and in a report,
\* reports written from their parts and reports that end within a mode.
ParseInputs ==
    {[kind |-> "report", text |-> t, fields |-> <<>>] :
        t \in {ReportScenario, ReportTwoOutputs, ReportBogus, <<>>}}
    \cup {[kind |-> "output", text |-> HeaderLine(h), fields |-> h] : h \in HeaderFields}
    \cup {[kind |-> "mode", text |-> JoinLf(<<ModeLine(m), LineMetaH, LineMetaV>>),
           fields |-> m] : m \in ModeFields}
    \cup {[kind |-> "section", text |-> JoinLf(SectionLines(items)), fields |-> items] :
            items \in SeqsUpTo(SectionItems, MaxItems)}
    \cup {[kind |-> "mode3", text |-> JoinLf(TwoModes(l)), fields |-> l] :
            l \in AfterModeHeader \X AfterModeHeader}
    \cup {[kind |-> "output3", text |-> JoinLf(<<LineEdp>> \o TwoModes(l)), fields |-> l] :
            l \in AfterModeHeader \X AfterModeHeader}
    \cup {[kind |-> "parts", text |-> ReportOfParts(f), fields |-> f] : f \in ReportParts}
    \cup {[kind |-> "truncated", text |-> ReportTruncated(k), fields |-> k] : k \in 0..1}
    \cup {[kind |-> "report3",
           text |-> JoinLf(<<LineScreen0, LineEdp>> \o TwoModes(l) \o << <<>> >>),
           fields |-> l] :
            l \in AfterModeHeader \X AfterModeHeader}

----------------------------------------------------------------------------
(* The values the variables of a part hold in the specifications of the    *)
(* other parts.                                                            *)

EmptyLineBuffer == [buffer |-> None, iterator |-> <<>>]

IdleLB ==
    /\ lbSource = <<>>
    /\ lb = EmptyLineBuffer
    /\ lbReturned = <<>>
    /\ lbLast = [op |-> "none", exc |-> "", val |-> <<>>, ret |-> FALSE]

IdleParse ==
    /\ pInput = [kind |-> "none", text |-> <<>>, fields |-> <<>>]
    /\ pLines = EmptyLineBuffer
    /\ pResult = [op |-> "none", exc |-> "", msg |-> <<>>, val |-> <<>>]
    /\ pc = "idle"

IdleCtx ==
    /\ generation_id = 0
    /\ pending_updates = <<>>
    /\ screen = None
    /\ update_policy = 0
    /\ issued = {}
    /\ refreshes = 0
    /\ requests = <<>>
    /\ calls = <<>>
    /\ lastOp = [op |-> "none"]

----------------------------------------------------------------------------
(* SpecLB: a LineBuffer over a finite line sequence, under any             *)
(* interleaving of peek, next and has_next.                                *)

\* The lines the stand-alone cursor is built over: an empty line, a line of
\* blanks and two texts.
CursorLines == {<<>>, <<" ">>, <<"a">>, <<"b">>}

InitLB ==
    /\ lbSource \in SeqsUpTo(CursorLines, MaxLen)
    /\ lb = NewLineBuffer(lbSource)
    /\ lbReturned = <<>>
    /\ lbLast = [op |-> "init", exc |-> "", val |-> <<>>, ret |-> FALSE]
    /\ IdleParse
    /\ IdleCtx

LBPeek ==
    /\ lb' = Peek(lb).lb
    /\ lbLast' = [op |-> "peek", exc |-> Peek(lb).exc, val |-> Peek(lb).val, ret |-> FALSE]
    /\ UNCHANGED <<lbSource, lbReturned>>
    /\ UNCHANGED <<parseVars, ctxVars>>

LBNext ==
    /\ lb' = NextLine(lb).lb
    /\ lbLast' = [op |-> "next", exc |-> NextLine(lb).exc, val |-> NextLine(lb).val, ret |-> FALSE]
    /\ lbReturned' = IF NextLine(lb).exc = "" THEN Append(lbReturned, NextLine(lb).val)
                     ELSE lbReturned
    /\ UNCHANGED lbSource
    /\ UNCHANGED <<parseVars, ctxVars>>

LBHasNext ==
    /\ lb' = HasNext(lb).lb
    /\ lbLast' = [op |-> "has_next", exc |-> "", val |-> <<>>, ret |-> HasNext(lb).ret]
    /\ UNCHANGED <<lbSource, lbReturned>>
    /\ UNCHANGED <<parseVars, ctxVars>>

NextLB == LBPeek \/ LBNext \/ LBHasNext

SpecLB == InitLB /\ [][NextLB]_vars

\* C10: the lines next() has returned are the first lines of the source, in
\* order and each once; peek() returns the line after them and next() the
\* last of them; has_next() is true exactly when fewer lines than the
\* source holds have been returned; peek() and next() raise StopIteration
\* exactly when no line is left; the cursor holds exactly the lines not yet
\* returned.
C10_LineCursor ==
    LET n == Len(lbReturned)
    IN  /\ n <= Len(lbSource)
        /\ lbReturned = SubSeq(lbSource, 1, n)
        /\ lb.buffer \o lb.iterator = SubSeq(lbSource, n + 1, Len(lbSource))
        /\ HasNext(lb).ret = (n < Len(lbSource))
        /\ (Peek(lb).exc = "StopIteration") = ~HasNext(lb).ret
        /\ (NextLine(lb).exc = "StopIteration") = ~HasNext(lb).ret
        /\ lbLast.op = "has_next" => lbLast.ret = (n < Len(lbSource))
        /\ lbLast.op = "peek" =>
              IF n < Len(lbSource)
              THEN lbLast.exc = "" /\ lbLast.val = lbSource[n + 1]
                   /\ NextLine(lb).val = lbLast.val
              ELSE lbLast.exc = "StopIteration"
        /\ lbLast.op = "next" =>
              \/ lbLast.exc = "" /\ n >= 1 /\ lbLast.val = lbSource[n]
              \/ lbLast.exc = "StopIteration" /\ n = Len(lbSource)

\* C10 witness: a source of at least two lines, the first one empty, has
\* been returned whole and a peek has then raised StopIteration.
C10_Witness ==
    /\ Len(lbSource) >= 2
    /\ lbSource[1] = <<>>
    /\ lbReturned = lbSource
    /\ lbLast.op = "peek"
    /\ lbLast.exc = "StopIteration"

\* The number of lines the cursor has pulled from the underlying sequence.
Pulled == Len(lbSource) - Len(lb.iterator)

\* C17: the cursor has pulled at most one line more than next() has
\* returned, and a cursor that was constructed and never asked has pulled
\* no line.
C17_LazyCursor ==
    /\ Pulled <= Len(lbReturned) + 1
    /\ lbLast.op = "init" => Pulled = 0

\* The part of C17 the cursor keeps: at most one line is held ahead.
C17_AtMostOneAhead == Pulled <= Len(lbReturned) + 1

\* The state C17 fails in: a cursor just constructed over a non-empty
\* sequence already holds its first line.
C17_PulledAtConstruction ==
    /\ lbLast.op = "init"
    /\ lbSource # <<>>
    /\ lb.buffer = Some(lbSource[1])
    /\ Pulled = 1

----------------------------------------------------------------------------
(* SpecParse: the tool's text is split into lines, one parsing operation   *)
(* is applied to the cursor and, for an Output, the result is rendered.    *)

InitParse ==
    /\ pInput \in ParseInputs
    /\ pLines = EmptyLineBuffer
    /\ pResult = [op |-> "none", exc |-> "", msg |-> <<>>, val |-> <<>>]
    /\ pc = "start"
    /\ IdleLB
    /\ IdleCtx

\* _run_xrandr(['--verbose']) with exit code 0 and the input as its output.
PRunXrandr ==
    /\ pc = "start"
    /\ pLines' = RunXrandr(<<<<"-","-","v","e","r","b","o","s","e">>>>, 0, pInput.text).val
    /\ pc' = "lines"
    /\ UNCHANGED <<pInput, pResult>>
    /\ UNCHANGED <<lbVars, ctxVars>>

PParseScreen ==
    /\ pc = "lines"
    /\ LET r == ParseScreen(1, pLines)
       IN  /\ pResult' = [op |-> "parse_screen", exc |-> r.exc, msg |-> r.msg, val |-> r.val]
           /\ pLines' = r.lb
    /\ pc' = "parsed"
    /\ UNCHANGED pInput
    /\ UNCHANGED <<lbVars, ctxVars>>

PParseOutput ==
    /\ pc = "lines"
    /\ LET r == ParseOutput(1, pLines)
       IN  /\ pResult' = [op |-> "parse_output", exc |-> r.exc, msg |-> r.msg, val |-> r.val]
           /\ pLines' = r.lb
    /\ pc' = "parsed"
    /\ UNCHANGED pInput
    /\ UNCHANGED <<lbVars, ctxVars>>

PParseMode ==
    /\ pc = "lines"
    /\ LET r == ParseMode(1, NameEdp, pLines)
       IN  /\ pResult' = [op |-> "parse_mode", exc |-> r.exc, msg |-> r.msg, val |-> r.val]
           /\ pLines' = r.lb
    /\ pc' = "parsed"
    /\ UNCHANGED pInput
    /\ UNCHANGED <<lbVars, ctxVars>>

\* str(output) of the Output parse_output returned.
POutputStr ==
    /\ pc = "parsed"
    /\ pResult.op = "parse_output"
    /\ pResult.exc = ""
    /\ pResult' = [op |-> "str", exc |-> OutputStr(pResult.val).exc, msg |-> <<>>,
                   val |-> OutputStr(pResult.val).val]
    /\ pc' = "rendered"
    /\ UNCHANGED <<pInput, pLines>>
    /\ UNCHANGED <<lbVars, ctxVars>>

NextParse == PRunXrandr \/ PParseScreen \/ PParseOutput \/ PParseMode \/ POutputStr

SpecParse == InitParse /\ [][NextParse]_vars

----------------------------------------------------------------------------
(* The context: xrandr.Xrandr with its generation counter, its pending     *)
(* updates and its screen.  A method is an operator from the context       *)
(* before the call (a record of the object's fields, with the exception    *)
(* raised, its message and the tool invocations made so far) and the       *)
(* behaviour of the external tool during the call to the context after.    *)

\* XrandrUpdatePolicy
IMMEDIATE == 101
DEFERRED == 102
UpdatePolicies == {IMMEDIATE, DEFERRED}

\* XrandrRelativePosition
LEFT_OF == <<"-","-","l","e","f","t","-","o","f">>
RIGHT_OF == <<"-","-","r","i","g","h","t","-","o","f">>
ABOVE == <<"-","-","a","b","o","v","e">>
BELOW == <<"-","-","b","e","l","o","w">>
SAME_AS == <<"-","-","s","a","m","e","-","a","s">>
RelativePositions == {LEFT_OF, RIGHT_OF, ABOVE, BELOW, SAME_AS}

ArgVerbose == <<"-","-","v","e","r","b","o","s","e">>
ArgOutput == <<"-","-","o","u","t","p","u","t">>
ArgMode == <<"-","-","m","o","d","e">>
ArgPos == <<"-","-","p","o","s">>

\* The empty dict, and d[k] = v.
EmptyMap == <<>>
Put(d, k, v) == [x \in (DOMAIN d) \cup {k} |-> IF x = k THEN v ELSE d[x]]

\* XrandrModelObject.is_valid, for an object of the context whose counter
\* is master_gen.
IsValid(o, master_gen) == o.generation_id = master_gen

\* The bounds of the context specification: the largest value of the
\* generation counter and the most requests registered and not yet cleared.
MaxGen == 3
MaxRequests == 2

\* What the tool may do when it is invoked with --verbose: print a report,
\* print something else, or fail.
ToolRuns ==
    {[tag |-> "report", exitcode |-> 0, stdout |-> ReportTwoOutputs],
     [tag |-> "bogus", exitcode |-> 0, stdout |-> ReportBogus],
     [tag |-> "failure", exitcode |-> 1,
      stdout |-> <<"C","a","n","'","t"," ","o","p","e","n"," ","d","i","s","p","l","a","y">>]}

\* What the tool may do when it is invoked with the pending arguments.
UpdateRuns ==
    {[tag |-> "done", exitcode |-> 0, stdout |-> <<>>],
     [tag |-> "failure", exitcode |-> 1,
      stdout |-> <<"c","a","n","n","o","t"," ","f","i","n","d"," ","o","u","t","p","u","t">>]}

\* lines = self._run_xrandr(["--verbose"]) and self._parse_screen(lines) of
\* Xrandr.refresh, for every value of the counter and every behaviour of
\* the tool, computed once.
VerboseReport ==
    [g \in 0..(MaxGen + 1), run \in ToolRuns |->
        Let(RunXrandr(<<ArgVerbose>>, run.exitcode, run.stdout), LAMBDA l :
            IF l.exc # "" THEN l ELSE ParseScreen(g, l.val))]

\* A mutant of Refresh: the generation counter is not incremented.
RefreshSameGeneration(c, run) ==
    LET c1 == [c EXCEPT !.pending_updates = EmptyMap,
                        !.calls = Append(@, <<ArgVerbose>>)]
    IN  Let(VerboseReport[c1.generation_id, run], LAMBDA r :
            IF r.exc # "" THEN [c1 EXCEPT !.exc = r.exc, !.msg = r.msg]
            ELSE [c1 EXCEPT !.screen = Some(r.val)])

\* A mutant of Refresh: the pending updates are not discarded.
RefreshKeepsPending(c, run) ==
    LET c1 == [c EXCEPT !.generation_id = @ + 1,
                        !.calls = Append(@, <<ArgVerbose>>)]
    IN  Let(VerboseReport[c1.generation_id, run], LAMBDA r :
            IF r.exc # "" THEN [c1 EXCEPT !.exc = r.exc, !.msg = r.msg]
            ELSE [c1 EXCEPT !.screen = Some(r.val)])

\* Xrandr.refresh, with run = [exitcode, stdout] what the tool does when it
\* is invoked with --verbose.
Refresh(c, run) ==
    LET c1 == [c EXCEPT !.generation_id = @ + 1,
                        !.pending_updates = EmptyMap,
                        !.calls = Append(@, <<ArgVerbose>>)]
    IN  Let(VerboseReport[c1.generation_id, run], LAMBDA r :
            IF r.exc # "" THEN [c1 EXCEPT !.exc = r.exc, !.msg = r.msg]
            ELSE [c1 EXCEPT !.screen = Some(r.val)])

\* A mutant of ConcatValues: only the first value is taken.
ConcatFirstOnly(d, order) == IF order = <<>> THEN <<>> ELSE d[Head(order)]

\* The argument lists of d's values one after another, the keys taken in
\* the order given (a dict iterates in an order of its own).
RECURSIVE ConcatValues(_, _)
ConcatValues(d, order) ==
    IF order = <<>> THEN <<>>
    ELSE d[Head(order)] \o ConcatValues(d, Tail(order))

\* A mutant of CommitUpdates: the pending updates are emptied before the
\* tool is run with them.
CommitUpdatesClearsFirst(c, order, run1, run2) ==
    LET args == ConcatValues(c.pending_updates, order)
        c1 == [c EXCEPT !.calls = Append(@, args), !.pending_updates = EmptyMap]
    IN  Let(RunXrandr(args, run1.exitcode, run1.stdout), LAMBDA l :
        IF l.exc # "" THEN [c1 EXCEPT !.exc = l.exc, !.msg = l.msg]
        ELSE Refresh(c1, run2))

\* Xrandr.commit_updates, with order the dict's iteration order, run1 what
\* the tool does with the pending arguments and run2 what it does with
\* --verbose.
CommitUpdates(c, order, run1, run2) ==
    LET args == ConcatValues(c.pending_updates, order)
        c1 == [c EXCEPT !.calls = Append(@, args)]
    IN  Let(RunXrandr(args, run1.exitcode, run1.stdout), LAMBDA l :
        IF l.exc # "" THEN [c1 EXCEPT !.exc = l.exc, !.msg = l.msg]
        ELSE Refresh([c1 EXCEPT !.pending_updates = EmptyMap], run2))

\* A mutant of PerformUpdate: dict.setdefault, which keeps the first value
\* registered under a key.
PerformUpdateKeepsFirst(c, object_identifier, property_name, xrandr_args, order, run1, run2) ==
    LET key == <<object_identifier, property_name>>
        c1 == IF key \in DOMAIN c.pending_updates THEN c
              ELSE [c EXCEPT !.pending_updates = Put(@, key, xrandr_args)]
    IN  IF c.update_policy = IMMEDIATE
        THEN CommitUpdates(c1, order, run1, run2)
        ELSE c1

\* A mutant of PerformUpdate: the update is registered and never committed,
\* whatever the policy.
PerformUpdateNeverCommits(c, object_identifier, property_name, xrandr_args, order, run1, run2) ==
    [c EXCEPT !.pending_updates = Put(@, <<object_identifier, property_name>>, xrandr_args)]

\* Xrandr._perform_update
PerformUpdate(c, object_identifier, property_name, xrandr_args, order, run1, run2) ==
    LET c1 == [c EXCEPT !.pending_updates =
                           Put(@, <<object_identifier, property_name>>, xrandr_args)]
    IN  IF c.update_policy = IMMEDIATE
        THEN CommitUpdates(c1, order, run1, run2)
        ELSE c1

\* The argument lists the three requests of Output register.
SetModeArgs(o, mode) == <<ArgOutput, o.name, ArgMode, HexStr(mode.id)>>
SetPositionArgs(o, x, y) == <<ArgOutput, o.name, ArgPos, DecStr(x) \o <<"x">> \o DecStr(y)>>
SetPositionRelativeToArgs(o, relative_pos, output) ==
    <<ArgOutput, o.name, relative_pos, output.name>>

\* Output.set_mode
SetMode(c, o, mode, order, run1, run2) ==
    PerformUpdate(c, o.identifier, "mode", SetModeArgs(o, mode), order, run1, run2)

\* Output.set_position
SetPosition(c, o, x, y, order, run1, run2) ==
    PerformUpdate(c, o.identifier, "position", SetPositionArgs(o, x, y),
                  order, run1, run2)

\* A mutant of SetPositionRelativeTo: the flag is not checked.
SetPositionRelativeToUnchecked(c, o, relative_pos, output, order, run1, run2) ==
    PerformUpdate(c, o.identifier, "position",
                  SetPositionRelativeToArgs(o, relative_pos, output),
                  order, run1, run2)

\* Output.set_position_relative_to
SetPositionRelativeTo(c, o, relative_pos, output, order, run1, run2) ==
    IF relative_pos \notin RelativePositions
    THEN [c EXCEPT !.exc = "ValueError",
                   !.msg = <<"I","n","v","a","l","i","d"," ","r","e","l","a","t","i","v","e"," ","p","o","s","i","t","i","o","n">>]
    ELSE PerformUpdate(c, o.identifier, "position",
                       SetPositionRelativeToArgs(o, relative_pos, output),
                       order, run1, run2)

----------------------------------------------------------------------------
(* Spec: one context after its construction, under any interleaving of     *)
(* refresh, commit_updates and the three requests of its outputs, made on  *)
(* any object the context has ever handed out, with an external tool that  *)
(* may fail or print any of a few reports.                                 *)
(*   issued     every Screen handed out, and with it its Outputs and       *)
(*              their Modes, with the number of refreshes begun when it    *)
(*              was built                                                  *)
(*   refreshes  the number of refreshes begun                              *)
(*   requests   the requests registered since the pending updates were     *)
(*              last emptied                                               *)
(*   calls      the argument lists the tool was invoked with by the last   *)
(*              operation                                                  *)
(*   lastOp     the last operation, whether its receiver was valid when    *)
(*              it was called, the exception it raised, the tag of what    *)
(*              the tool did with --verbose, the number of pending         *)
(*              updates when the operation was called and the relative     *)
(*              position given to set_position_relative_to                 *)

\* Xrandr.__init__ up to its call of refresh.
NewXrandr(policy) ==
    [generation_id |-> 0, pending_updates |-> EmptyMap, screen |-> None,
     update_policy |-> policy, exc |-> "", msg |-> <<>>, calls |-> <<>>]

\* The context as a method finds it.
Self ==
    [generation_id |-> generation_id, pending_updates |-> pending_updates,
     screen |-> screen, update_policy |-> update_policy,
     exc |-> "", msg |-> <<>>, calls |-> <<>>]

\* The model objects of a screen: the Screen, its Outputs, their Modes.
ObjectsOf(s) ==
    {s} \cup {s.outputs[i] : i \in DOMAIN s.outputs}
        \cup UNION {{s.outputs[i].modes[j] : j \in DOMAIN s.outputs[i].modes} :
                      i \in DOMAIN s.outputs}

\* Every model object handed out, with the number of refreshes begun when
\* it was built.
IssuedEntries ==
    UNION {{[obj |-> o, born |-> e.born] : o \in ObjectsOf(e.obj)} : e \in issued}
IssuedObjects == {e.obj : e \in IssuedEntries}
IssuedOutputs == {o \in IssuedObjects : o.kind = "Output"}

\* The Outputs and the Modes of the screen the context holds.
ScreenOutputs == {o \in ObjectsOf(screen[1]) : o.kind = "Output"}
ScreenModes == {o \in ObjectsOf(screen[1]) : o.kind = "Mode"}

\* The orders a dict of these keys may iterate in.
Orders(keys) ==
    {s \in [1..Cardinality(keys) -> keys] :
        \A i, j \in 1..Cardinality(keys) : s[i] = s[j] => i = j}

\* The arguments of the requests.
Positions == {<<1920, 0>>}
RelativeArgs == {LEFT_OF, <<"-","-","b","e","s","i","d","e">>}

\* The variables after a method has returned or raised with the context c.
\* began says that the method began a refresh, req is the request it
\* registered, if any, and report what the tool printed to --verbose.
Finish(c, opname, wasValid, began, req, report, flag) ==
    /\ generation_id' = c.generation_id
    /\ pending_updates' = c.pending_updates
    /\ screen' = c.screen
    /\ update_policy' = c.update_policy
    /\ calls' = c.calls
    /\ refreshes' = IF began THEN refreshes + 1 ELSE refreshes
    /\ issued' = IF began /\ c.exc = ""
                 THEN issued \cup {[obj |-> c.screen[1], born |-> refreshes + 1]}
                 ELSE issued
    /\ requests' = IF began THEN <<>>
                   ELSE IF req # None THEN Append(requests, req[1])
                   ELSE requests
    /\ lastOp' = [op |-> opname, valid |-> wasValid, exc |-> c.exc, msg |-> c.msg,
                  report |-> IF began THEN report.tag ELSE "",
                  pending |-> Cardinality(DOMAIN pending_updates),
                  flag |-> flag]
    /\ UNCHANGED <<lbVars, parseVars>>

\* Xrandr(update_policy=policy) has returned.
Init ==
    /\ \E policy \in UpdatePolicies, run \in ToolRuns :
          LET c == Refresh(NewXrandr(policy), run)
          IN  /\ c.exc = ""
              /\ generation_id = c.generation_id
              /\ pending_updates = c.pending_updates
              /\ screen = c.screen
              /\ update_policy = c.update_policy
              /\ calls = c.calls
              /\ issued = {[obj |-> c.screen[1], born |-> 1]}
              /\ lastOp = [op |-> "init", valid |-> TRUE, exc |-> "", msg |-> <<>>,
                           report |-> run.tag, pending |-> 0, flag |-> <<>>]
    /\ refreshes = 1
    /\ requests = <<>>
    /\ IdleLB
    /\ IdleParse

\* context.refresh()
DoRefresh ==
    /\ generation_id < MaxGen
    /\ \E run \in ToolRuns :
          Finish(Refresh(Self, run), "refresh", TRUE, TRUE, None, run, <<>>)

\* What the tool may do with --verbose after it has done run1 with the
\* pending arguments: it is not invoked again when run1 failed.
VerboseRuns(run1) == IF run1.exitcode = 0 THEN ToolRuns ELSE {CHOOSE r \in ToolRuns : TRUE}

\* context.commit_updates()
DoCommitUpdates ==
    /\ generation_id < MaxGen
    /\ \E order \in Orders(DOMAIN pending_updates), run1 \in UpdateRuns :
       \E run2 \in VerboseRuns(run1) :
          Finish(CommitUpdates(Self, order, run1, run2), "commit_updates", TRUE,
                 run1.exitcode = 0, None, run2, <<>>)

\* The tool's behaviour a request depends on: none under the deferred
\* policy, where the tool is not invoked.
RequestRuns == IF update_policy = IMMEDIATE THEN UpdateRuns ELSE {CHOOSE r \in UpdateRuns : TRUE}
RequestOrders(key) ==
    IF update_policy = IMMEDIATE THEN Orders((DOMAIN pending_updates) \cup {key})
    ELSE {<<>>}
RequestAllowed ==
    /\ Len(requests) < MaxRequests
    /\ update_policy = IMMEDIATE => generation_id < MaxGen

\* output.set_mode(mode), on any Output ever handed out, with a Mode of the
\* screen.
DoSetMode ==
    /\ RequestAllowed
    /\ \E o \in IssuedOutputs, mode \in ScreenModes :
       \E order \in RequestOrders(<<o.identifier, "mode">>), run1 \in RequestRuns :
       \E run2 \in VerboseRuns(run1) :
          Finish(SetMode(Self, o, mode, order, run1, run2), "set_mode",
                 IsValid(o, generation_id),
                 update_policy = IMMEDIATE /\ run1.exitcode = 0,
                 Some([key |-> <<o.identifier, "mode">>, args |-> SetModeArgs(o, mode)]),
                 run2, <<>>)

\* output.set_position(x, y)
DoSetPosition ==
    /\ RequestAllowed
    /\ \E o \in IssuedOutputs, p \in Positions :
       \E order \in RequestOrders(<<o.identifier, "position">>), run1 \in RequestRuns :
       \E run2 \in VerboseRuns(run1) :
          Finish(SetPosition(Self, o, p[1], p[2], order, run1, run2), "set_position",
                 IsValid(o, generation_id),
                 update_policy = IMMEDIATE /\ run1.exitcode = 0,
                 Some([key |-> <<o.identifier, "position">>,
                       args |-> SetPositionArgs(o, p[1], p[2])]),
                 run2, <<>>)

\* output.set_position_relative_to(relative_pos, output), with an Output of
\* the screen as the other one.
DoSetPositionRelativeTo ==
    /\ RequestAllowed
    /\ \E o \in IssuedOutputs, output \in ScreenOutputs, relative_pos \in RelativeArgs :
       \E order \in RequestOrders(<<o.identifier, "position">>),
          run1 \in IF relative_pos \in RelativePositions THEN RequestRuns
                   ELSE {CHOOSE r \in UpdateRuns : r.exitcode # 0} :
       \E run2 \in VerboseRuns(run1) :
          Finish(SetPositionRelativeTo(Self, o, relative_pos, output, order, run1, run2),
                 "set_position_relative_to",
                 IsValid(o, generation_id),
                 relative_pos \in RelativePositions
                    /\ update_policy = IMMEDIATE /\ run1.exitcode = 0,
                 IF relative_pos \in RelativePositions
                 THEN Some([key |-> <<o.identifier, "position">>,
                            args |-> SetPositionRelativeToArgs(o, relative_pos, output)])
                 ELSE None,
                 run2, relative_pos)

Next ==
    \/ DoRefresh
    \/ DoCommitUpdates
    \/ DoSetMode
    \/ DoSetPosition
    \/ DoSetPositionRelativeTo

Spec == Init /\ [][Next]_vars

----------------------------------------------------------------------------
(* Properties of the context.                                              *)

\* sub in text
Contains(text, sub) ==
    \E i \in 0..(Len(text) - Len(sub)) : SubSeq(text, i + 1, i + Len(sub)) = sub

\* The first line of a report as the parser receives it.
FirstLine(stdout) == RStrip(SplitLines(stdout)[1])

RequestOps == {"set_mode", "set_position", "set_position_relative_to"}

\* C1: a model object is valid exactly as long as no refresh has begun
\* since the refresh that built it: valid in every state before the next
\* refresh begins, invalid in every state from then on, however many
\* refreshes, commits and requests follow.
C1_GenerationValidity ==
    \A e \in IssuedEntries : IsValid(e.obj, generation_id) <=> e.born = refreshes

\* C1 witness: two refreshes have begun since an object was built; it is
\* invalid and an object of the last refresh is valid.
C1_Witness ==
    /\ refreshes = 3
    /\ \E e \in IssuedEntries :
          e.obj.kind = "Mode" /\ e.born = 1 /\ ~IsValid(e.obj, generation_id)
    /\ \E e \in IssuedEntries : e.born = 3 /\ IsValid(e.obj, generation_id)

\* C2: a request made on an Output whose generation is not the context's
\* raises XrandrContextError, leaves the pending updates as they were and
\* does not invoke the tool.
C2_StaleRequestRejected ==
    [][(lastOp'.op \in RequestOps /\ ~lastOp'.valid)
          => /\ lastOp'.exc = "XrandrContextError"
             /\ pending_updates' = pending_updates
             /\ calls' = <<>>]_vars

\* C3: under the deferred policy the pending updates hold exactly one entry
\* for every key requested since they were last emptied, and the entry of
\* a key is the argument list of the last request for that key.
C3_LatestRequestPerKey ==
    update_policy = DEFERRED =>
        /\ DOMAIN pending_updates = {requests[i].key : i \in DOMAIN requests}
        /\ \A k \in DOMAIN pending_updates :
              LET last == SetMax({i \in DOMAIN requests : requests[i].key = k})
              IN  pending_updates[k] = requests[last].args

\* C3 witness: set_position and then set_position_relative_to on the same
\* output: the one entry of the key is the relative one.
C3_Witness ==
    /\ update_policy = DEFERRED
    /\ Len(requests) = 2
    /\ requests[1].key = requests[2].key
    /\ requests[1].args[3] = ArgPos
    /\ requests[2].args[3] = LEFT_OF
    /\ DOMAIN pending_updates = {requests[2].key}
    /\ pending_updates[requests[2].key] = requests[2].args

\* C4: a step in which a refresh begins, called directly or by a commit,
\* adds one to the generation counter and empties the pending updates; a
\* direct refresh invokes the tool with --verbose only; when the operation
\* succeeds the screen is a graph of objects none of which was handed out
\* before; every object handed out before is invalid afterwards.
C4_RefreshDiscardsAndRenews ==
    [][refreshes' = refreshes + 1
          => /\ generation_id' = generation_id + 1
             /\ pending_updates' = EmptyMap
             /\ lastOp'.op = "refresh" => calls' = <<<<ArgVerbose>>>>
             /\ lastOp'.exc = ""
                   => /\ screen' # None
                      /\ ObjectsOf(screen'[1]) \cap IssuedObjects = {}
                      /\ \A o \in ObjectsOf(screen'[1]) : IsValid(o, generation_id')
             /\ \A o \in IssuedObjects : ~IsValid(o, generation_id')]_vars

\* C4 witness: a direct refresh made while two updates were pending has
\* succeeded.
C4_Witness ==
    /\ lastOp.op = "refresh"
    /\ lastOp.pending = 2
    /\ lastOp.exc = ""
    /\ pending_updates = EmptyMap
    /\ generation_id = 2

\* What the tool prints when the first line is not a screen line, by tag.
MalformedRuns ==
    {run \in ToolRuns : run.exitcode = 0 /\ ~ScreenHeaderMatch(FirstLine(run.stdout)).ok}
MalformedLine ==
    [t \in {run.tag : run \in MalformedRuns} |->
        FirstLine((CHOOSE run \in MalformedRuns : run.tag = t).stdout)]

\* C8: when the first line of the report is not a screen line, the
\* operation raises XrandrCommandError with that line in its message, no
\* model object is built and the screen of the context stays the one it
\* was.
C8_MalformedScreenLine ==
    [][(refreshes' = refreshes + 1 /\ lastOp'.report \in DOMAIN MalformedLine)
          => /\ lastOp'.exc = "XrandrCommandError"
             /\ Contains(lastOp'.msg, MalformedLine[lastOp'.report])
             /\ screen' = screen
             /\ issued' = issued]_vars

\* C8 witness: a refresh to which the tool printed "Screen: bogus" has
\* raised and the context still has its screen.
C8_Witness ==
    /\ lastOp.op = "refresh"
    /\ lastOp.report = "bogus"
    /\ lastOp.exc = "XrandrCommandError"
    /\ Contains(lastOp.msg, LineScreenBogus)
    /\ screen # None
    /\ generation_id = 2

----------------------------------------------------------------------------
(* Properties of the parser and of the rendering of an Output.             *)

\* C5: the report of the scenario parses to one Screen 0 with minimum
\* (320,200), current (1920,1080) and maximum (8192,8192), whose one
\* Output is eDP-1, connected, of size (1920,1080) at (0,0) with current
\* mode 0x44, whose one Mode has size (1920,1080), id 0x44, is preferred
\* and has the flags -HSync, +VSync.
C5_ScenarioGraph ==
    (pInput.text = ReportScenario /\ pResult.op = "parse_screen")
       => /\ pResult.exc = ""
          /\ pResult.val.number = 0
          /\ pResult.val.size_min = <<320, 200>>
          /\ pResult.val.size_current = <<1920, 1080>>
          /\ pResult.val.size_max = <<8192, 8192>>
          /\ Len(pResult.val.outputs) = 1
          /\ LET o == pResult.val.outputs[1]
             IN  /\ o.name = NameEdp
                 /\ o.connected = Some(TRUE)
                 /\ o.size = Some(<<1920, 1080>>)
                 /\ o.position = Some(<<0, 0>>)
                 /\ o.current_mode_id = Some(68)
                 /\ Len(o.modes) = 1
                 /\ o.modes[1].size = <<1920, 1080>>
                 /\ o.modes[1].id = 68
                 /\ o.modes[1].preferred
                 /\ o.modes[1].flags = <<<<"-","H","S","y","n","c">>, <<"+","V","S","y","n","c">>>>

\* C6: an output header line of the grammar, with nothing after it, is
\* parsed to an Output; without a size block size and position are absent;
\* without a mode-id block current_mode_id is absent; position is present
\* exactly when size is; a size without +X+Y gives the position (0,0).
C6_OutputHeaderGrammar ==
    (pInput.kind = "output" /\ pInput.fields.tail = <<>> /\ pResult.op = "parse_output")
       => /\ pResult.exc = ""
          /\ pInput.fields.size = None
                => pResult.val.size = None /\ pResult.val.position = None
          /\ pInput.fields.mode_id = None => pResult.val.current_mode_id = None
          /\ (pResult.val.position # None) <=> (pResult.val.size # None)
          /\ (pInput.fields.size # None /\ pInput.fields.pos = None)
                => pResult.val.position = Some(<<0, 0>>)

\* C7: a mode header line is parsed to a Mode whose flags are the tokens
\* of the line's flags segment, in order and with duplicates: none for an
\* empty segment.
C7_FlagsParsing ==
    (pInput.kind = "mode" /\ pResult.op = "parse_mode")
       => /\ pResult.exc = ""
          /\ pResult.val.flags = pInput.fields.flags

\* C9: for an output header line that reports a size, parse_output returns
\* an Output and str() of it succeeds and shows the size, the position and
\* the mode id the line reported.
C9_HeaderRoundTrip ==
    (pInput.kind = "output" /\ pInput.fields.size # None)
       => /\ pResult.op = "parse_output" => pResult.exc = ""
          /\ pResult.op = "str"
                => /\ pResult.exc = ""
                   /\ Contains(pResult.val,
                               DecStr(pInput.fields.size[1][1]) \o <<"x">>
                               \o DecStr(pInput.fields.size[1][2]))
                   /\ pInput.fields.pos # None
                         => Contains(pResult.val,
                                     <<"+">> \o DecStr(pInput.fields.pos[1][1]) \o <<"+">>
                                     \o DecStr(pInput.fields.pos[1][2]))
                   /\ pInput.fields.mode_id # None
                         => Contains(pResult.val, HexStr(pInput.fields.mode_id[1]))

----------------------------------------------------------------------------
(* Properties of commit_updates and of the requests.                       *)

\* An argument list cut into lists of four.
Chunks(args) == [i \in 1..(Len(args) \div 4) |-> SubSeq(args, 4 * i - 3, 4 * i)]

\* "0x" and hexadecimal digits
IsHexText(t) ==
    /\ Len(t) >= 3
    /\ t[1] = "0" /\ t[2] = "x"
    /\ \A i \in 3..Len(t) : t[i] \in HexChars

\* decimal digits, "x", decimal digits
IsPosText(t) ==
    \E k \in 2..(Len(t) - 1) :
        /\ t[k] = "x"
        /\ \A i \in (1..Len(t)) \ {k} : t[i] \in Digits

\* --output <name> --mode 0x<hex id>, --output <name> --pos <x>x<y> or
\* --output <name> <relative flag> <other name>
WellShaped(c) ==
    /\ Len(c) = 4
    /\ c[1] = ArgOutput
    /\ c[2] # <<>>
    /\ \/ c[3] = ArgMode /\ IsHexText(c[4])
       \/ c[3] = ArgPos /\ IsPosText(c[4])
       \/ c[3] \in RelativePositions /\ c[4] # <<>>

\* The key a list of four is registered under.
KeyOfChunk(c) ==
    << <<"O","u","t","p","u","t","(">> \o c[2] \o <<")">>,
       IF c[3] = ArgMode THEN "mode" ELSE "position" >>

\* C11: when a commit invokes the tool, directly or for a request under
\* the immediate policy, the arguments are lists of four of the three
\* shapes, one for each key pending at that moment and equal to the entry
\* of that key, and nothing else; when the invocation succeeds the pending
\* updates are empty afterwards.
C11_CommitArguments ==
    [][(lastOp'.op \in RequestOps \cup {"commit_updates"} /\ calls' # <<>>)
          => LET args == calls'[1]
                 ch == Chunks(args)
                 given == {ch[i] : i \in DOMAIN ch}
             IN  /\ Len(args) % 4 = 0
                 /\ \A c \in given : WellShaped(c)
                 /\ IF lastOp'.op = "commit_updates"
                    THEN /\ Len(ch) = Cardinality(DOMAIN pending_updates)
                         /\ given = {pending_updates[k] : k \in DOMAIN pending_updates}
                    ELSE \E c \in given :
                            LET rest == (DOMAIN pending_updates) \ {KeyOfChunk(c)}
                            IN  /\ Len(ch) = Cardinality(rest) + 1
                                /\ given = {pending_updates[k] : k \in rest} \cup {c}
                 /\ refreshes' = refreshes + 1 => pending_updates' = EmptyMap]_vars

\* C11 witness: a commit made with two updates pending has invoked the
\* tool with eight arguments and then with --verbose, and has succeeded.
C11_Witness ==
    /\ lastOp.op = "commit_updates"
    /\ lastOp.pending = 2
    /\ lastOp.exc = ""
    /\ Len(calls) = 2
    /\ Len(calls[1]) = 8
    /\ calls[1][3] # calls[1][7]
    /\ pending_updates = EmptyMap


\* C12: set_position_relative_to called with a flag that is none of
\* --left-of, --right-of, --above, --below, --same-as raises ValueError
\* and leaves the pending updates, the generation counter and the screen
\* as they were, without invoking the tool, under either policy.
C12_InvalidRelativePosition ==
    [][(lastOp'.op = "set_position_relative_to"
           /\ lastOp'.flag \notin RelativePositions)
          => /\ lastOp'.exc = "ValueError"
             /\ pending_updates' = pending_updates
             /\ generation_id' = generation_id
             /\ screen' = screen
             /\ refreshes' = refreshes
             /\ calls' = <<>>]_vars

\* C12 witness: under the immediate policy, a call with the flag --beside
\* has raised ValueError.
C12_Witness ==
    /\ update_policy = IMMEDIATE
    /\ lastOp.op = "set_position_relative_to"
    /\ lastOp.flag = <<"-","-","b","e","s","i","d","e">>
    /\ lastOp.exc = "ValueError"
    /\ calls = <<>>

\* C12 witness under the deferred policy, with an update pending.
C12_WitnessDeferred ==
    /\ update_policy = DEFERRED
    /\ lastOp.op = "set_position_relative_to"
    /\ lastOp.flag \notin RelativePositions
    /\ lastOp.exc = "ValueError"
    /\ pending_updates # EmptyMap


\* The last element of a non-empty sequence.
Last(s) == s[Len(s)]

\* C18: when the tool exits with a non-zero status for the pending
\* arguments, commit_updates raises XrandrCommandError and leaves the
\* context as it was: what was pending is still pending (under the
\* immediate policy, with the request that caused the commit), the
\* generation counter and the screen are unchanged, every object is valid
\* exactly if it was, and --verbose is not run. When the commit goes on to
\* refresh, the tool was run with the pending arguments first and with
\* --verbose second, and the generation counter is one higher.
C18_FailedCommitLeavesContext ==
    [][(lastOp'.op \in RequestOps \cup {"commit_updates"} /\ calls' # <<>>)
          => IF refreshes' = refreshes
             THEN /\ lastOp'.exc = "XrandrCommandError"
                  /\ Contains(lastOp'.msg, <<"E","r","r","o","r"," ","r","u","n","n","i","n","g">>)
                  /\ pending_updates' =
                        IF lastOp'.op = "commit_updates" THEN pending_updates
                        ELSE Put(pending_updates, Last(requests').key, Last(requests').args)
                  /\ generation_id' = generation_id
                  /\ screen' = screen
                  /\ issued' = issued
                  /\ \A o \in IssuedObjects :
                        IsValid(o, generation_id') = IsValid(o, generation_id)
                  /\ Len(calls') = 1
                  /\ calls'[1] # <<ArgVerbose>>
             ELSE /\ Len(calls') = 2
                  /\ calls'[1] # <<ArgVerbose>>
                  /\ calls'[2] = <<ArgVerbose>>
                  /\ generation_id' = generation_id + 1]_vars

\* C18 witness: commit_updates, called with two updates pending, has
\* raised XrandrCommandError after one invocation of the tool and the two
\* updates are still pending.
C18_Witness ==
    /\ lastOp.op = "commit_updates"
    /\ lastOp.pending = 2
    /\ lastOp.exc = "XrandrCommandError"
    /\ lastOp.report = ""
    /\ Len(calls) = 1
    /\ Len(calls[1]) = 8
    /\ Cardinality(DOMAIN pending_updates) = 2


\* C19: the screen of the context and every output and mode reachable from
\* it carry the current generation counter, in every state, also after an
\* operation that failed.
C19_ExposedGraphValid ==
    screen # None => \A o \in ObjectsOf(screen[1]) : IsValid(o, generation_id)

\* The state C19 fails in: a refresh has raised, the counter is one higher
\* and the screen is still the one built before.
C19_StaleScreenAfterFailedRefresh ==
    /\ lastOp.op = "refresh"
    /\ lastOp.exc # ""
    /\ screen # None
    /\ screen[1].generation_id < generation_id


\* C20: under the deferred policy a request registers its update and does
\* nothing else: the tool is not invoked, the generation counter and the
\* screen are unchanged and every object is valid exactly if it was. Under
\* the immediate policy a request that returns has committed: no update is
\* pending, the tool was run with the arguments and then with --verbose,
\* the generation counter is one higher and no object handed out before,
\* the output of the request among them, is valid.
C20_UpdatePolicy ==
    [][(lastOp'.op \in RequestOps /\ lastOp'.exc = "")
          => IF update_policy = DEFERRED
             THEN /\ requests' = Append(requests, Last(requests'))
                  /\ pending_updates' =
                        Put(pending_updates, Last(requests').key, Last(requests').args)
                  /\ calls' = <<>>
                  /\ generation_id' = generation_id
                  /\ screen' = screen
                  /\ \A o \in IssuedObjects :
                        IsValid(o, generation_id') = IsValid(o, generation_id)
             ELSE /\ update_policy = IMMEDIATE
                  /\ pending_updates' = EmptyMap
                  /\ Len(calls') = 2
                  /\ generation_id' = generation_id + 1
                  /\ \A o \in IssuedObjects : ~IsValid(o, generation_id')
                  /\ \A o \in ObjectsOf(screen'[1]) : IsValid(o, generation_id')]_vars

\* C20 witness: under the immediate policy set_mode, called on a valid
\* output, has returned; the counter is 2 and nothing is pending.
C20_Witness ==
    /\ update_policy = IMMEDIATE
    /\ lastOp.op = "set_mode"
    /\ lastOp.exc = ""
    /\ lastOp.valid
    /\ generation_id = 2
    /\ Len(calls) = 2
    /\ pending_updates = EmptyMap

\* C20 witness under the deferred policy: set_mode has returned, its update
\* is pending and the tool was not invoked.
C20_WitnessDeferred ==
    /\ update_policy = DEFERRED
    /\ lastOp.op = "set_mode"
    /\ lastOp.exc = ""
    /\ lastOp.valid
    /\ calls = <<>>
    /\ pending_updates # EmptyMap


----------------------------------------------------------------------------
(* Properties of the parsers over output sections and whole reports.       *)

\* The lines a cursor still holds.
Remaining(b) == b.buffer \o b.iterator

\* The first item that is neither a supplementary line nor a mode, or 0.
StopIndex(items) ==
    LET S == {i \in DOMAIN items : items[i] \in {"junk", "blank", "header"}}
    IN  IF S = {} THEN 0 ELSE SetMin(S)

\* The modes among the items, in order.
ModesAmong(items) ==
    LET ms == SelectSeq(items, LAMBDA k : k \in {"modeA", "modeB"})
    IN  [i \in DOMAIN ms |-> IF ms[i] = "modeA" THEN ModeA ELSE ModeB]

\* C13: after the header parse_output consumes the lines that start with a
\* tab without producing data and parses each mode header into a Mode;
\* the first line that starts with neither a tab nor a space, an empty
\* line included, ends the section and stays in the cursor as the next
\* line; a line indented with a space that is no mode header raises a
\* parse error naming it. The modes of the Output returned are the modes
\* of the section in order.
C13_SectionLines ==
    (pInput.kind = "section" /\ pResult.op = "parse_output")
       => LET items == pInput.fields
              s == StopIndex(items)
              before == SubSeq(items, 1, IF s = 0 THEN Len(items) ELSE s - 1)
              rest == IF s = 0 THEN <<>>
                      ELSE ItemsLines(SubSeq(items, s, Len(items)))
              expected == ModesAmong(before)
          IN  IF s # 0 /\ items[s] = "junk"
              THEN /\ pResult.exc = "XrandrCommandError"
                   /\ pResult.msg = <<"C","o","u","l","d"," ","n","o","t"," ","p","a","r","s","e"," ","x","r","a","n","d","r"," ","O","u","t","p","u","t"," ","s","u","p","p","l","e","m","e","n","t","a","r","y"," ","l","i","n","e",":"," ">> \o LineJunk
              ELSE /\ pResult.exc = ""
                   /\ pResult.val.name = NameEdp
                   /\ Len(pResult.val.modes) = Len(expected)
                   /\ \A i \in DOMAIN expected :
                         /\ pResult.val.modes[i].id = expected[i].id
                         /\ pResult.val.modes[i].size = expected[i].size
                         /\ pResult.val.modes[i].flags = expected[i].flags
                   /\ Remaining(pLines) = rest
                   /\ rest # <<>> => NextLine(pLines).val = rest[1]

\* C13 witness: a section of a supplementary line, a mode and an empty
\* line has been parsed: one Mode, and the empty line is the next line of
\* the cursor.
C13_Witness ==
    /\ pInput.kind = "section"
    /\ pInput.fields = <<"tab", "modeA", "blank">>
    /\ pResult.op = "parse_output"
    /\ pResult.exc = ""
    /\ Len(pResult.val.modes) = 1
    /\ pLines.buffer = Some(<<>>)

\* C13 witness of the parse error: a mode, then a line indented with a
\* space.
C13_WitnessError ==
    /\ pInput.kind = "section"
    /\ pInput.fields = <<"modeB", "junk", "modeA">>
    /\ pResult.op = "parse_output"
    /\ pResult.exc = "XrandrCommandError"


\* The lines of the input as the parsers receive them.
InputLines == MapRStrip(SplitLines(pInput.text))

\* C14: a parse_mode that returns has advanced the cursor by exactly
\* three lines, the header and the two lines after it, whatever these two
\* are: they give no Mode and no Output and do not end the section, so
\* that the mode header after them is parsed as the next mode of the same
\* output.
C14_ModeTakesThreeLines ==
    /\ (pResult.op = "parse_mode" /\ pResult.exc = "")
          => /\ Len(InputLines) >= 3
             /\ Remaining(pLines) = SubSeq(InputLines, 4, Len(InputLines))
    /\ (pInput.kind = "mode3" /\ pResult.op = "parse_mode")
          => /\ pResult.exc = ""
             /\ pResult.val.id = ModeA.id
             /\ Remaining(pLines) = <<ModeLine(ModeB), LineMetaH, LineMetaV>>
    /\ (pInput.kind = "output3" /\ pResult.op = "parse_output")
          => /\ pResult.exc = ""
             /\ Len(pResult.val.modes) = 2
             /\ pResult.val.modes[1].id = ModeA.id
             /\ pResult.val.modes[2].id = ModeB.id
             /\ Remaining(pLines) = <<>>
    /\ (pInput.kind = "report3" /\ pResult.op = "parse_screen")
          => /\ pResult.exc = ""
             /\ Len(pResult.val.outputs) = 1
             /\ pResult.val.outputs[1].name = NameEdp
             /\ Len(pResult.val.outputs[1].modes) = 2
             /\ pResult.val.outputs[1].modes[1].id = ModeA.id
             /\ pResult.val.outputs[1].modes[2].id = ModeB.id

\* C14 witness: parse_mode has returned for a mode header followed by a
\* mode header and an empty line; the three lines of the next mode are
\* left.
C14_Witness ==
    /\ pInput.kind = "mode3"
    /\ pInput.fields = <<ModeLine(ModeB), <<>>>>
    /\ pResult.op = "parse_mode"
    /\ pResult.exc = ""
    /\ Len(Remaining(pLines)) = 3

\* C14 witness in a report: the two lines after the first mode header are
\* an output header and a mode header, and the screen has one output.
C14_WitnessReport ==
    /\ pInput.kind = "report3"
    /\ pInput.fields = <<LineHdmi, ModeLine(ModeB)>>
    /\ pResult.op = "parse_screen"
    /\ pResult.exc = ""
    /\ Len(pResult.val.outputs) = 1


\* The first line of the trailer that is not blank, or 0.
FirstNonBlank(tail) ==
    LET S == {i \in DOMAIN tail : Strip(tail[i]) # <<>>}
    IN  IF S = {} THEN 0 ELSE SetMin(S)

\* C15: after the last output parse_screen skips the lines that are empty
\* or blank; when a line that is not blank is left, it raises a parse
\* error whose message ends with that line; it returns a Screen only with
\* the cursor exhausted, and the outputs of the Screen are the output
\* sections of the report in order.
C15_TrailingLines ==
    /\ (pResult.op = "parse_screen" /\ pResult.exc = "") => Remaining(pLines) = <<>>
    /\ (pInput.kind = "parts" /\ pResult.op = "parse_screen")
          => LET f == pInput.fields
                 j == FirstNonBlank(f.tail)
             IN  /\ j # 0 =>
                       /\ pResult.exc = "XrandrCommandError"
                       /\ \/ pResult.msg = <<"C","o","u","l","d"," ","n","o","t"," ","p","a","r","s","e"," ","x","r","a","n","d","r"," ","o","u","t","p","u","t"," ","l","i","n","e",":"," ">> \o f.tail[j]
                          \/ pResult.msg = <<"C","o","u","l","d"," ","n","o","t"," ","p","a","r","s","e"," ","x","r","a","n","d","r"," ","O","u","t","p","u","t"," ","s","u","p","p","l","e","m","e","n","t","a","r","y"," ","l","i","n","e",":"," ">> \o f.tail[j]
                 /\ (j = 0 /\ f.tail # <<>>) => pResult.exc = ""
                 /\ pResult.exc = "" =>
                       /\ Len(pResult.val.outputs) = Len(f.outputs)
                       /\ \A i \in DOMAIN f.outputs :
                             IF f.outputs[i] = "edp"
                             THEN /\ pResult.val.outputs[i].name = NameEdp
                                  /\ Len(pResult.val.outputs[i].modes) = 1
                                  /\ pResult.val.outputs[i].modes[1].id = ModeA.id
                             ELSE /\ pResult.val.outputs[i].name = NameHdmi
                                  /\ pResult.val.outputs[i].modes = <<>>

\* C15 witness: a report of two outputs followed by an empty line and a
\* line of blanks has been parsed to a Screen of two outputs and the
\* cursor is exhausted.
C15_Witness ==
    /\ pInput.kind = "parts"
    /\ pInput.fields.outputs = <<"edp", "hdmi">>
    /\ pInput.fields.tail = << <<>>, <<" ", " ">> >>
    /\ pResult.op = "parse_screen"
    /\ pResult.exc = ""
    /\ Len(pResult.val.outputs) = 2
    /\ Remaining(pLines) = <<>>

\* C15 witness of the parse error: an empty line, then a text.
C15_WitnessError ==
    /\ pInput.kind = "parts"
    /\ pInput.fields.outputs = <<"hdmi">>
    /\ pInput.fields.tail = << <<>>, <<"j","u","n","k">> >>
    /\ pResult.op = "parse_screen"
    /\ pResult.exc = "XrandrCommandError"
    /\ pResult.msg = <<"C","o","u","l","d"," ","n","o","t"," ","p","a","r","s","e"," ","x","r","a","n","d","r"," ","o","u","t","p","u","t"," ","l","i","n","e",":"," ","j","u","n","k">>


\* text ends with suffix
EndsWith(text, suffix) ==
    /\ Len(suffix) <= Len(text)
    /\ SubSeq(text, Len(text) - Len(suffix) + 1, Len(text)) = suffix

\* C16: for every sequence of lines parse_screen returns a Screen or
\* raises a parse error that carries a line of the input; the cursor's
\* StopIteration never leaves the parser.
C16_NoStopIteration ==
    pResult.op = "parse_screen"
       => \/ pResult.exc = ""
          \/ /\ pResult.exc = "XrandrCommandError"
             /\ \E i \in DOMAIN InputLines : EndsWith(pResult.msg, InputLines[i])

\* The states C16 fails in: StopIteration has left parse_screen for a
\* report that ends after its screen line, after its last output or
\* within the metadata lines of a mode.
C16_StopIterationEscapes ==
    /\ pResult.op = "parse_screen"
    /\ pResult.exc = "StopIteration"
    /\ \/ pInput.kind = "parts" /\ pInput.fields.tail = <<>>
       \/ pInput.kind = "truncated"

====
